---- MODULE Spec2Model ----
(***************************************************************************)
(* The MERC-20 token ledger of examples/erc20-port: the Compact contract   *)
(* erc20.compact (ledger, constructor, circuits) driven by MERC20Simulator *)
(* (one ledger, one private state holding the caller's secret key).        *)
(***************************************************************************)
EXTENDS Integers, FiniteSets, Sequences, TLC

\* ------------------------------------------------------------------ bounds

\* Width of the model's unsigned integers; stands for the 222 of Uint<222>.
UintBits == 2

\* Number of method calls made on one simulator after its construction.
MaxSteps == 3

\* ------------------------------------------------------------------ types

\* Uint<222>: 0 .. 2^222 - 1.
MaxUint == 2 ^ UintBits - 1

Uint == 0 .. MaxUint

\* Bytes<32>: the model's 32-byte values.
Bytes32 == 0 .. 2

\* The amounts the callers of the model pass: nothing, the smallest amount
\* and the largest Uint<222>.
Amounts == {0, 1, MaxUint}

\* The supplies the model is constructed with: none and the largest.
InitialSupplies == {0, MaxUint}

\* new Uint8Array(): the zero-length key the simulator stores when it is
\* constructed without deployerSk. It is not a Bytes<32>.
EmptyKey == -1

\* The secret keys the callers of the model hold.
SecretKeys == {0, 1}

\* Uint<8>, sampled.
Decimals == {18}

TokenNames == {"TestToken"}

TokenSymbols == {"TTK"}

\* The messages of the contract's failures.
NoError == "none"

InsufficientBalance == "Insufficient balance"

NoAllowanceSet == "No allowance set"

InsufficientAllowance == "Insufficient allowance"

\* The checked cast `as Uint<222>` failing.
ArithmeticOverflow == "cast out of range"

\* The witness returning something that is not a Bytes<32>.
WitnessTypeError == "type error"

\* No address / no amount, in the record of the last operation.
None == 0 - 1

VARIABLES
  totalSupply,    \* ledger totalSupply: Uint<222>
  balances,       \* ledger balances: Map<Bytes<32>, Uint<222>>
  allowances,     \* ledger allowances: Map<Bytes<32>, Map<Bytes<32>, Uint<222>>>
  tokenName,      \* sealed ledger tokenName
  tokenSymbol,    \* sealed ledger tokenSymbol
  tokenDecimals,  \* sealed ledger tokenDecimals
  secretKey,      \* circuitContext.currentPrivateState.secretKey
  ctorArgs,       \* the arguments the constructor was given
  lastOp,         \* the last operation applied, its arguments and its outcome
  pre,            \* the ledger that operation was applied to
  steps,          \* number of simulator methods called so far
  approved,       \* history, per recorded (owner, spender): the approve calls made and their amounts
  spent,          \* history, per recorded (owner, spender): the amount moved by the spender's transferFrom
  twin,           \* a second simulator given the same calls (NoTwin when there is none)
  board           \* the Board component: its React state and its handlers in flight

ledgerVars == <<totalSupply, balances, allowances, tokenName, tokenSymbol, tokenDecimals>>

vars == <<totalSupply, balances, allowances, tokenName, tokenSymbol, tokenDecimals,
          secretKey, ctorArgs, lastOp, pre, steps, approved, spent, twin, board>>

\* ------------------------------------------------------------- the ledger

\* The ledger as one value: what getLedger() returns.
Ledger ==
  [totalSupply |-> totalSupply, balances |-> balances, allowances |-> allowances,
   tokenName |-> tokenName, tokenSymbol |-> tokenSymbol, tokenDecimals |-> tokenDecimals]

\* default<Map<K, V>>: the empty map.
EmptyMap == [k \in {} |-> 0]

\* Map.member
member(m, k) == k \in DOMAIN m

\* Map.lookup
lookup(m, k) == m[k]

\* Map.insert
insert(m, k, v) == [x \in (DOMAIN m) \cup {k} |-> IF x = k THEN v ELSE m[x]]

\* pad(32, "merc20:sk"): the domain tag.
DomainTag == 1

\* persistent_hash over a two-element vector, on the model's Bytes<32>: a
\* collision-free mix of the tag and the key.
persistent_hash(v) == (v[1] + v[2]) % Cardinality(Bytes32)

compute_address(sk) == persistent_hash(<<DomainTag, sk>>)

\* The addresses of the model.
Addresses == Bytes32

getTotalSupply(L) == L.totalSupply

balanceOf(L, owner) ==
  IF member(L.balances, owner) THEN lookup(L.balances, owner) ELSE 0

\* allowance looking the pair up as (spender, owner).
allowance_SwapsKeys(L, owner, spender) ==
  IF member(L.allowances, spender)
  THEN IF member(lookup(L.allowances, spender), owner)
       THEN lookup(lookup(L.allowances, spender), owner)
       ELSE 0
  ELSE 0

allowance(L, owner, spender) ==
  IF member(L.allowances, owner)
  THEN IF member(lookup(L.allowances, owner), spender)
       THEN lookup(lookup(L.allowances, owner), spender)
       ELSE 0
  ELSE 0

\* witnesses.get_secret_key: the private state's key.
get_secret_key(privateState) == privateState

\* A circuit's outcome: the failure (or NoError) and the ledger of its context
\* at that point.
Outcome(err, L) == [err |-> err, ledger |-> L]

\* constructor storing the symbol as the name and the name as the symbol.
construct_SwapsMetadata(initial_supply, mint_address, name, symbol, decimals) ==
  [totalSupply |-> initial_supply,
   balances |-> insert(EmptyMap, mint_address, initial_supply),
   allowances |-> EmptyMap,
   tokenName |-> symbol, tokenSymbol |-> name, tokenDecimals |-> decimals]

\* constructor that sets totalSupply but mints nothing to mint_address.
construct_NoMint(initial_supply, mint_address, name, symbol, decimals) ==
  [totalSupply |-> initial_supply,
   balances |-> EmptyMap,
   allowances |-> EmptyMap,
   tokenName |-> name, tokenSymbol |-> symbol, tokenDecimals |-> decimals]

\* constructor of the contract.
construct(initial_supply, mint_address, name, symbol, decimals) ==
  [totalSupply |-> initial_supply,
   balances |-> insert(EmptyMap, mint_address, initial_supply),
   allowances |-> EmptyMap,
   tokenName |-> name, tokenSymbol |-> symbol, tokenDecimals |-> decimals]

\* transfer reading the recipient's balance before the sender's debit is
\* stored: a transfer to oneself then credits the undebited balance.
transfer_ReadToFirst(L, privateState, to, amount) ==
  LET sk == get_secret_key(privateState) IN
  IF sk \notin Bytes32 THEN Outcome(WitnessTypeError, L) ELSE
  LET from == compute_address(sk)
      from_balance == IF member(L.balances, from) THEN lookup(L.balances, from) ELSE 0
      to_balance == IF member(L.balances, to) THEN lookup(L.balances, to) ELSE 0
  IN
  IF ~(from_balance >= amount) THEN Outcome(InsufficientBalance, L) ELSE
  LET L1 == [L EXCEPT !.balances = insert(@, from, from_balance - amount)] IN
  IF to_balance + amount > MaxUint THEN Outcome(ArithmeticOverflow, L1) ELSE
  Outcome(NoError, [L1 EXCEPT !.balances = insert(@, to, to_balance + amount)])

\* transfer asserting from_balance > amount instead of from_balance >= amount.
transfer_StrictCheck(L, privateState, to, amount) ==
  LET sk == get_secret_key(privateState) IN
  IF sk \notin Bytes32 THEN Outcome(WitnessTypeError, L) ELSE
  LET from == compute_address(sk)
      from_balance == IF member(L.balances, from) THEN lookup(L.balances, from) ELSE 0
  IN
  IF ~(from_balance > amount) THEN Outcome(InsufficientBalance, L) ELSE
  LET L1 == [L EXCEPT !.balances = insert(@, from, from_balance - amount)]
      to_balance == IF member(L1.balances, to) THEN lookup(L1.balances, to) ELSE 0
  IN
  IF to_balance + amount > MaxUint THEN Outcome(ArithmeticOverflow, L1) ELSE
  Outcome(NoError, [L1 EXCEPT !.balances = insert(@, to, to_balance + amount)])

\* transfer storing amount as the recipient's balance instead of adding it.
transfer_CreditOverwrites(L, privateState, to, amount) ==
  LET sk == get_secret_key(privateState) IN
  IF sk \notin Bytes32 THEN Outcome(WitnessTypeError, L) ELSE
  LET from == compute_address(sk)
      from_balance == IF member(L.balances, from) THEN lookup(L.balances, from) ELSE 0
  IN
  IF ~(from_balance >= amount) THEN Outcome(InsufficientBalance, L) ELSE
  LET L1 == [L EXCEPT !.balances = insert(@, from, from_balance - amount)] IN
  Outcome(NoError, [L1 EXCEPT !.balances = insert(@, to, amount)])

\* transfer that credits the recipient and stores no debit of the sender.
transfer_NoDebit(L, privateState, to, amount) ==
  LET sk == get_secret_key(privateState) IN
  IF sk \notin Bytes32 THEN Outcome(WitnessTypeError, L) ELSE
  LET from == compute_address(sk)
      from_balance == IF member(L.balances, from) THEN lookup(L.balances, from) ELSE 0
  IN
  IF ~(from_balance >= amount) THEN Outcome(InsufficientBalance, L) ELSE
  LET L1 == [L EXCEPT !.balances = insert(@, from, from_balance)]
      to_balance == IF member(L1.balances, to) THEN lookup(L1.balances, to) ELSE 0
  IN
  IF to_balance + amount > MaxUint THEN Outcome(ArithmeticOverflow, L1) ELSE
  Outcome(NoError, [L1 EXCEPT !.balances = insert(@, to, to_balance + amount)])

\* transfer asserting that the amount is positive.
transfer_RejectsZero(L, privateState, to, amount) ==
  LET sk == get_secret_key(privateState) IN
  IF sk \notin Bytes32 THEN Outcome(WitnessTypeError, L) ELSE
  LET from == compute_address(sk)
      from_balance == IF member(L.balances, from) THEN lookup(L.balances, from) ELSE 0
  IN
  IF ~(amount > 0) THEN Outcome(InsufficientBalance, L) ELSE
  IF ~(from_balance >= amount) THEN Outcome(InsufficientBalance, L) ELSE
  LET L1 == [L EXCEPT !.balances = insert(@, from, from_balance - amount)]
      to_balance == IF member(L1.balances, to) THEN lookup(L1.balances, to) ELSE 0
  IN
  IF to_balance + amount > MaxUint THEN Outcome(ArithmeticOverflow, L1) ELSE
  Outcome(NoError, [L1 EXCEPT !.balances = insert(@, to, to_balance + amount)])

\* transfer writing the recipient's entry before it asserts the sender's
\* balance.
transfer_CreditBeforeCheck(L, privateState, to, amount) ==
  LET sk == get_secret_key(privateState) IN
  IF sk \notin Bytes32 THEN Outcome(WitnessTypeError, L) ELSE
  LET from == compute_address(sk)
      to_balance0 == IF member(L.balances, to) THEN lookup(L.balances, to) ELSE 0
      L0 == [L EXCEPT !.balances = insert(@, to, to_balance0)]
      from_balance == IF member(L0.balances, from) THEN lookup(L0.balances, from) ELSE 0
  IN
  IF ~(from_balance >= amount) THEN Outcome(InsufficientBalance, L0) ELSE
  LET L1 == [L0 EXCEPT !.balances = insert(@, from, from_balance - amount)]
      to_balance == IF member(L1.balances, to) THEN lookup(L1.balances, to) ELSE 0
  IN
  IF to_balance + amount > MaxUint THEN Outcome(ArithmeticOverflow, L1) ELSE
  Outcome(NoError, [L1 EXCEPT !.balances = insert(@, to, to_balance + amount)])

\* transfer debiting the secret key itself, taken as an address, instead of
\* the address derived from it.
transfer_KeyAsAddress(L, privateState, to, amount) ==
  LET sk == get_secret_key(privateState) IN
  IF sk \notin Bytes32 THEN Outcome(WitnessTypeError, L) ELSE
  LET from == sk
      from_balance == IF member(L.balances, from) THEN lookup(L.balances, from) ELSE 0
  IN
  IF ~(from_balance >= amount) THEN Outcome(InsufficientBalance, L) ELSE
  LET L1 == [L EXCEPT !.balances = insert(@, from, from_balance - amount)]
      to_balance == IF member(L1.balances, to) THEN lookup(L1.balances, to) ELSE 0
  IN
  IF to_balance + amount > MaxUint THEN Outcome(ArithmeticOverflow, L1) ELSE
  Outcome(NoError, [L1 EXCEPT !.balances = insert(@, to, to_balance + amount)])

\* transfer whose credit is an unchecked cast: the sum is stored modulo 2^222.
transfer_WrappingCredit(L, privateState, to, amount) ==
  LET sk == get_secret_key(privateState) IN
  IF sk \notin Bytes32 THEN Outcome(WitnessTypeError, L) ELSE
  LET from == compute_address(sk)
      from_balance == IF member(L.balances, from) THEN lookup(L.balances, from) ELSE 0
  IN
  IF ~(from_balance >= amount) THEN Outcome(InsufficientBalance, L) ELSE
  LET L1 == [L EXCEPT !.balances = insert(@, from, from_balance - amount)]
      to_balance == IF member(L1.balances, to) THEN lookup(L1.balances, to) ELSE 0
  IN
  Outcome(NoError,
          [L1 EXCEPT !.balances = insert(@, to, (to_balance + amount) % (MaxUint + 1))])

\* transfer that takes the amount out of totalSupply as well.
transfer_ReducesSupply(L, privateState, to, amount) ==
  LET sk == get_secret_key(privateState) IN
  IF sk \notin Bytes32 THEN Outcome(WitnessTypeError, L) ELSE
  LET from == compute_address(sk)
      from_balance == IF member(L.balances, from) THEN lookup(L.balances, from) ELSE 0
  IN
  IF ~(from_balance >= amount) THEN Outcome(InsufficientBalance, L) ELSE
  LET L1 == [L EXCEPT !.balances = insert(@, from, from_balance - amount),
                      !.totalSupply = @ - amount]
      to_balance == IF member(L1.balances, to) THEN lookup(L1.balances, to) ELSE 0
  IN
  IF to_balance + amount > MaxUint THEN Outcome(ArithmeticOverflow, L1) ELSE
  Outcome(NoError, [L1 EXCEPT !.balances = insert(@, to, to_balance + amount)])

\* transfer that reads the caller's entry without the member test: a caller
\* with no entry is refused, a caller with a zero entry is not.
transfer_RequiresEntry(L, privateState, to, amount) ==
  LET sk == get_secret_key(privateState) IN
  IF sk \notin Bytes32 THEN Outcome(WitnessTypeError, L) ELSE
  LET from == compute_address(sk) IN
  IF ~member(L.balances, from) THEN Outcome(InsufficientBalance, L) ELSE
  LET from_balance == lookup(L.balances, from) IN
  IF ~(from_balance >= amount) THEN Outcome(InsufficientBalance, L) ELSE
  LET L1 == [L EXCEPT !.balances = insert(@, from, from_balance - amount)]
      to_balance == IF member(L1.balances, to) THEN lookup(L1.balances, to) ELSE 0
  IN
  IF to_balance + amount > MaxUint THEN Outcome(ArithmeticOverflow, L1) ELSE
  Outcome(NoError, [L1 EXCEPT !.balances = insert(@, to, to_balance + amount)])

\* circuit transfer(to, amount), run on ledger L with the private state's key.
transfer(L, privateState, to, amount) ==
  LET sk == get_secret_key(privateState) IN
  IF sk \notin Bytes32 THEN Outcome(WitnessTypeError, L) ELSE
  LET from == compute_address(sk)
      from_balance == IF member(L.balances, from) THEN lookup(L.balances, from) ELSE 0
  IN
  IF ~(from_balance >= amount) THEN Outcome(InsufficientBalance, L) ELSE
  LET L1 == [L EXCEPT !.balances = insert(@, from, from_balance - amount)]
      to_balance == IF member(L1.balances, to) THEN lookup(L1.balances, to) ELSE 0
  IN
  IF to_balance + amount > MaxUint THEN Outcome(ArithmeticOverflow, L1) ELSE
  Outcome(NoError, [L1 EXCEPT !.balances = insert(@, to, to_balance + amount)])

\* approve adding amount to the allowance already stored.
approve_Additive(L, privateState, spender, amount) ==
  LET sk == get_secret_key(privateState) IN
  IF sk \notin Bytes32 THEN Outcome(WitnessTypeError, L) ELSE
  LET owner == compute_address(sk)
      L1 == IF ~member(L.allowances, owner)
            THEN [L EXCEPT !.allowances = insert(@, owner, EmptyMap)]
            ELSE L
      old == IF member(lookup(L1.allowances, owner), spender)
             THEN lookup(lookup(L1.allowances, owner), spender)
             ELSE 0
  IN
  Outcome(NoError,
          [L1 EXCEPT !.allowances =
             insert(@, owner, insert(lookup(L1.allowances, owner), spender, old + amount))])

\* approve asserting that the owner's balance covers the amount.
approve_RequiresBalance(L, privateState, spender, amount) ==
  LET sk == get_secret_key(privateState) IN
  IF sk \notin Bytes32 THEN Outcome(WitnessTypeError, L) ELSE
  LET owner == compute_address(sk)
      owner_balance == IF member(L.balances, owner) THEN lookup(L.balances, owner) ELSE 0
      L1 == IF ~member(L.allowances, owner)
            THEN [L EXCEPT !.allowances = insert(@, owner, EmptyMap)]
            ELSE L
  IN
  IF ~(owner_balance >= amount) THEN Outcome(InsufficientBalance, L) ELSE
  Outcome(NoError,
          [L1 EXCEPT !.allowances =
             insert(@, owner, insert(lookup(L1.allowances, owner), spender, amount))])

\* approve initialising the owner's inner map on every call, not only when
\* the owner has none.
approve_ResetsInner(L, privateState, spender, amount) ==
  LET sk == get_secret_key(privateState) IN
  IF sk \notin Bytes32 THEN Outcome(WitnessTypeError, L) ELSE
  LET owner == compute_address(sk)
      L1 == [L EXCEPT !.allowances = insert(@, owner, EmptyMap)]
  IN
  Outcome(NoError,
          [L1 EXCEPT !.allowances =
             insert(@, owner, insert(lookup(L1.allowances, owner), spender, amount))])

\* circuit approve(spender, amount).
approve(L, privateState, spender, amount) ==
  LET sk == get_secret_key(privateState) IN
  IF sk \notin Bytes32 THEN Outcome(WitnessTypeError, L) ELSE
  LET owner == compute_address(sk)
      L1 == IF ~member(L.allowances, owner)
            THEN [L EXCEPT !.allowances = insert(@, owner, EmptyMap)]
            ELSE L
  IN
  Outcome(NoError,
          [L1 EXCEPT !.allowances =
             insert(@, owner, insert(lookup(L1.allowances, owner), spender, amount))])

\* transferFrom storing the decremented allowance before it checks the balance.
transferFrom_AllowanceFirst(L, privateState, from, to, amount) ==
  LET sk == get_secret_key(privateState) IN
  IF sk \notin Bytes32 THEN Outcome(WitnessTypeError, L) ELSE
  LET spender == compute_address(sk) IN
  IF ~member(L.allowances, from) THEN Outcome(NoAllowanceSet, L) ELSE
  IF ~member(lookup(L.allowances, from), spender) THEN Outcome(NoAllowanceSet, L) ELSE
  LET allowance_ == lookup(lookup(L.allowances, from), spender) IN
  IF ~(allowance_ >= amount) THEN Outcome(InsufficientAllowance, L) ELSE
  LET L1 == [L EXCEPT !.allowances =
               insert(@, from, insert(lookup(L.allowances, from), spender, allowance_ - amount))]
      from_balance == IF member(L1.balances, from) THEN lookup(L1.balances, from) ELSE 0
  IN
  IF ~(from_balance >= amount) THEN Outcome(InsufficientBalance, L1) ELSE
  LET L2 == [L1 EXCEPT !.balances = insert(@, from, from_balance - amount)]
      to_balance == IF member(L2.balances, to) THEN lookup(L2.balances, to) ELSE 0
  IN
  IF to_balance + amount > MaxUint THEN Outcome(ArithmeticOverflow, L2) ELSE
  Outcome(NoError, [L2 EXCEPT !.balances = insert(@, to, to_balance + amount)])

\* transferFrom checking the balance before the allowance.
transferFrom_BalanceFirst(L, privateState, from, to, amount) ==
  LET sk == get_secret_key(privateState) IN
  IF sk \notin Bytes32 THEN Outcome(WitnessTypeError, L) ELSE
  LET spender == compute_address(sk)
      from_balance == IF member(L.balances, from) THEN lookup(L.balances, from) ELSE 0
  IN
  IF ~(from_balance >= amount) THEN Outcome(InsufficientBalance, L) ELSE
  IF ~member(L.allowances, from) THEN Outcome(NoAllowanceSet, L) ELSE
  IF ~member(lookup(L.allowances, from), spender) THEN Outcome(NoAllowanceSet, L) ELSE
  LET allowance_ == lookup(lookup(L.allowances, from), spender) IN
  IF ~(allowance_ >= amount) THEN Outcome(InsufficientAllowance, L) ELSE
  LET L1 == [L EXCEPT !.allowances =
               insert(@, from, insert(lookup(L.allowances, from), spender, allowance_ - amount))]
      L2 == [L1 EXCEPT !.balances = insert(@, from, from_balance - amount)]
      to_balance == IF member(L2.balances, to) THEN lookup(L2.balances, to) ELSE 0
  IN
  IF to_balance + amount > MaxUint THEN Outcome(ArithmeticOverflow, L2) ELSE
  Outcome(NoError, [L2 EXCEPT !.balances = insert(@, to, to_balance + amount)])

\* transferFrom leaving the allowance as it was.
transferFrom_NoAllowanceDecrement(L, privateState, from, to, amount) ==
  LET sk == get_secret_key(privateState) IN
  IF sk \notin Bytes32 THEN Outcome(WitnessTypeError, L) ELSE
  LET spender == compute_address(sk) IN
  IF ~member(L.allowances, from) THEN Outcome(NoAllowanceSet, L) ELSE
  IF ~member(lookup(L.allowances, from), spender) THEN Outcome(NoAllowanceSet, L) ELSE
  LET allowance_ == lookup(lookup(L.allowances, from), spender) IN
  IF ~(allowance_ >= amount) THEN Outcome(InsufficientAllowance, L) ELSE
  LET from_balance == IF member(L.balances, from) THEN lookup(L.balances, from) ELSE 0 IN
  IF ~(from_balance >= amount) THEN Outcome(InsufficientBalance, L) ELSE
  LET L2 == [L EXCEPT !.balances = insert(@, from, from_balance - amount)]
      to_balance == IF member(L2.balances, to) THEN lookup(L2.balances, to) ELSE 0
  IN
  IF to_balance + amount > MaxUint THEN Outcome(ArithmeticOverflow, L2) ELSE
  Outcome(NoError, [L2 EXCEPT !.balances = insert(@, to, to_balance + amount)])

\* transferFrom decrementing the allowance under the recipient's key instead
\* of the spender's.
transferFrom_WrongSpender(L, privateState, from, to, amount) ==
  LET sk == get_secret_key(privateState) IN
  IF sk \notin Bytes32 THEN Outcome(WitnessTypeError, L) ELSE
  LET spender == compute_address(sk) IN
  IF ~member(L.allowances, from) THEN Outcome(NoAllowanceSet, L) ELSE
  IF ~member(lookup(L.allowances, from), spender) THEN Outcome(NoAllowanceSet, L) ELSE
  LET allowance_ == lookup(lookup(L.allowances, from), spender) IN
  IF ~(allowance_ >= amount) THEN Outcome(InsufficientAllowance, L) ELSE
  LET from_balance == IF member(L.balances, from) THEN lookup(L.balances, from) ELSE 0 IN
  IF ~(from_balance >= amount) THEN Outcome(InsufficientBalance, L) ELSE
  LET L1 == [L EXCEPT !.allowances =
               insert(@, from, insert(lookup(L.allowances, from), to, allowance_ - amount))]
      L2 == [L1 EXCEPT !.balances = insert(@, from, from_balance - amount)]
      to_balance == IF member(L2.balances, to) THEN lookup(L2.balances, to) ELSE 0
  IN
  IF to_balance + amount > MaxUint THEN Outcome(ArithmeticOverflow, L2) ELSE
  Outcome(NoError, [L2 EXCEPT !.balances = insert(@, to, to_balance + amount)])

\* transferFrom without its balance assertions.
transferFrom_NoBalanceCheck(L, privateState, from, to, amount) ==
  LET sk == get_secret_key(privateState) IN
  IF sk \notin Bytes32 THEN Outcome(WitnessTypeError, L) ELSE
  LET spender == compute_address(sk) IN
  IF ~member(L.allowances, from) THEN Outcome(NoAllowanceSet, L) ELSE
  IF ~member(lookup(L.allowances, from), spender) THEN Outcome(NoAllowanceSet, L) ELSE
  LET allowance_ == lookup(lookup(L.allowances, from), spender) IN
  IF ~(allowance_ >= amount) THEN Outcome(InsufficientAllowance, L) ELSE
  LET from_balance == IF member(L.balances, from) THEN lookup(L.balances, from) ELSE 0
      L1 == [L EXCEPT !.allowances =
               insert(@, from, insert(lookup(L.allowances, from), spender, allowance_ - amount))]
      L2 == [L1 EXCEPT !.balances = insert(@, from, from_balance - amount)]
      to_balance == IF member(L2.balances, to) THEN lookup(L2.balances, to) ELSE 0
  IN
  IF to_balance + amount > MaxUint THEN Outcome(ArithmeticOverflow, L2) ELSE
  Outcome(NoError, [L2 EXCEPT !.balances = insert(@, to, to_balance + amount)])

\* transferFrom reading the recipient's balance before the sender's debit is
\* stored: with from = to the credit is added to the undebited balance.
transferFrom_ReadToFirst(L, privateState, from, to, amount) ==
  LET sk == get_secret_key(privateState) IN
  IF sk \notin Bytes32 THEN Outcome(WitnessTypeError, L) ELSE
  LET spender == compute_address(sk) IN
  IF ~member(L.allowances, from) THEN Outcome(NoAllowanceSet, L) ELSE
  IF ~member(lookup(L.allowances, from), spender) THEN Outcome(NoAllowanceSet, L) ELSE
  LET allowance_ == lookup(lookup(L.allowances, from), spender) IN
  IF ~(allowance_ >= amount) THEN Outcome(InsufficientAllowance, L) ELSE
  LET from_balance == IF member(L.balances, from) THEN lookup(L.balances, from) ELSE 0
      to_balance == IF member(L.balances, to) THEN lookup(L.balances, to) ELSE 0
  IN
  IF ~(from_balance >= amount) THEN Outcome(InsufficientBalance, L) ELSE
  LET L1 == [L EXCEPT !.allowances =
               insert(@, from, insert(lookup(L.allowances, from), spender, allowance_ - amount))]
      L2 == [L1 EXCEPT !.balances = insert(@, from, from_balance - amount)]
  IN
  IF to_balance + amount > MaxUint THEN Outcome(ArithmeticOverflow, L2) ELSE
  Outcome(NoError, [L2 EXCEPT !.balances = insert(@, to, to_balance + amount)])

\* transferFrom removing the (from, spender) entry once the allowance is
\* spent down to 0.
transferFrom_DropsSpentEntry(L, privateState, from, to, amount) ==
  LET sk == get_secret_key(privateState) IN
  IF sk \notin Bytes32 THEN Outcome(WitnessTypeError, L) ELSE
  LET spender == compute_address(sk) IN
  IF ~member(L.allowances, from) THEN Outcome(NoAllowanceSet, L) ELSE
  IF ~member(lookup(L.allowances, from), spender) THEN Outcome(NoAllowanceSet, L) ELSE
  LET allowance_ == lookup(lookup(L.allowances, from), spender) IN
  IF ~(allowance_ >= amount) THEN Outcome(InsufficientAllowance, L) ELSE
  LET from_balance == IF member(L.balances, from) THEN lookup(L.balances, from) ELSE 0 IN
  IF ~(from_balance >= amount) THEN Outcome(InsufficientBalance, L) ELSE
  LET inner == lookup(L.allowances, from)
      L1 == [L EXCEPT !.allowances =
               insert(@, from,
                      IF allowance_ - amount = 0
                      THEN [s \in DOMAIN inner \ {spender} |-> inner[s]]
                      ELSE insert(inner, spender, allowance_ - amount))]
      L2 == [L1 EXCEPT !.balances = insert(@, from, from_balance - amount)]
      to_balance == IF member(L2.balances, to) THEN lookup(L2.balances, to) ELSE 0
  IN
  IF to_balance + amount > MaxUint THEN Outcome(ArithmeticOverflow, L2) ELSE
  Outcome(NoError, [L2 EXCEPT !.balances = insert(@, to, to_balance + amount)])

\* transferFrom without authorization: it neither reads nor writes the
\* allowance.
transferFrom_NoAllowanceCheck(L, privateState, from, to, amount) ==
  LET sk == get_secret_key(privateState) IN
  IF sk \notin Bytes32 THEN Outcome(WitnessTypeError, L) ELSE
  LET from_balance == IF member(L.balances, from) THEN lookup(L.balances, from) ELSE 0 IN
  IF ~(from_balance >= amount) THEN Outcome(InsufficientBalance, L) ELSE
  LET L2 == [L EXCEPT !.balances = insert(@, from, from_balance - amount)]
      to_balance == IF member(L2.balances, to) THEN lookup(L2.balances, to) ELSE 0
  IN
  IF to_balance + amount > MaxUint THEN Outcome(ArithmeticOverflow, L2) ELSE
  Outcome(NoError, [L2 EXCEPT !.balances = insert(@, to, to_balance + amount)])

\* transferFrom taking the amount out of the spender's balance instead of
\* from's.
transferFrom_DebitsSpender(L, privateState, from, to, amount) ==
  LET sk == get_secret_key(privateState) IN
  IF sk \notin Bytes32 THEN Outcome(WitnessTypeError, L) ELSE
  LET spender == compute_address(sk) IN
  IF ~member(L.allowances, from) THEN Outcome(NoAllowanceSet, L) ELSE
  IF ~member(lookup(L.allowances, from), spender) THEN Outcome(NoAllowanceSet, L) ELSE
  LET allowance_ == lookup(lookup(L.allowances, from), spender) IN
  IF ~(allowance_ >= amount) THEN Outcome(InsufficientAllowance, L) ELSE
  LET from_balance == IF member(L.balances, from) THEN lookup(L.balances, from) ELSE 0
      spender_balance == IF member(L.balances, spender) THEN lookup(L.balances, spender) ELSE 0
  IN
  IF ~(from_balance >= amount) THEN Outcome(InsufficientBalance, L) ELSE
  LET L1 == [L EXCEPT !.allowances =
               insert(@, from, insert(lookup(L.allowances, from), spender, allowance_ - amount))]
      L2 == [L1 EXCEPT !.balances = insert(@, spender, spender_balance - amount)]
      to_balance == IF member(L2.balances, to) THEN lookup(L2.balances, to) ELSE 0
  IN
  IF to_balance + amount > MaxUint THEN Outcome(ArithmeticOverflow, L2) ELSE
  Outcome(NoError, [L2 EXCEPT !.balances = insert(@, to, to_balance + amount)])

\* transferFrom that returns at once when amount is 0, before looking at the
\* allowance entry (as a zero-amount transfer succeeds unconditionally).
transferFrom_ZeroShortCircuit(L, privateState, from, to, amount) ==
  LET sk == get_secret_key(privateState) IN
  IF sk \notin Bytes32 THEN Outcome(WitnessTypeError, L) ELSE
  LET spender == compute_address(sk) IN
  IF amount = 0 THEN Outcome(NoError, L) ELSE
  IF ~member(L.allowances, from) THEN Outcome(NoAllowanceSet, L) ELSE
  IF ~member(lookup(L.allowances, from), spender) THEN Outcome(NoAllowanceSet, L) ELSE
  LET allowance_ == lookup(lookup(L.allowances, from), spender) IN
  IF ~(allowance_ >= amount) THEN Outcome(InsufficientAllowance, L) ELSE
  LET from_balance == IF member(L.balances, from) THEN lookup(L.balances, from) ELSE 0 IN
  IF ~(from_balance >= amount) THEN Outcome(InsufficientBalance, L) ELSE
  LET L1 == [L EXCEPT !.allowances =
               insert(@, from, insert(lookup(L.allowances, from), spender, allowance_ - amount))]
      L2 == [L1 EXCEPT !.balances = insert(@, from, from_balance - amount)]
      to_balance == IF member(L2.balances, to) THEN lookup(L2.balances, to) ELSE 0
  IN
  IF to_balance + amount > MaxUint THEN Outcome(ArithmeticOverflow, L2) ELSE
  Outcome(NoError, [L2 EXCEPT !.balances = insert(@, to, to_balance + amount)])

\* circuit transferFrom(from, to, amount).
transferFrom(L, privateState, from, to, amount) ==
  LET sk == get_secret_key(privateState) IN
  IF sk \notin Bytes32 THEN Outcome(WitnessTypeError, L) ELSE
  LET spender == compute_address(sk) IN
  IF ~member(L.allowances, from) THEN Outcome(NoAllowanceSet, L) ELSE
  IF ~member(lookup(L.allowances, from), spender) THEN Outcome(NoAllowanceSet, L) ELSE
  LET allowance_ == lookup(lookup(L.allowances, from), spender) IN
  IF ~(allowance_ >= amount) THEN Outcome(InsufficientAllowance, L) ELSE
  LET from_balance == IF member(L.balances, from) THEN lookup(L.balances, from) ELSE 0 IN
  IF ~(from_balance >= amount) THEN Outcome(InsufficientBalance, L) ELSE
  IF ~(from_balance >= amount) THEN Outcome(InsufficientBalance, L) ELSE
  LET L1 == [L EXCEPT !.allowances =
               insert(@, from, insert(lookup(L.allowances, from), spender, allowance_ - amount))]
      L2 == [L1 EXCEPT !.balances = insert(@, from, from_balance - amount)]
      to_balance == IF member(L2.balances, to) THEN lookup(L2.balances, to) ELSE 0
  IN
  IF to_balance + amount > MaxUint THEN Outcome(ArithmeticOverflow, L2) ELSE
  Outcome(NoError, [L2 EXCEPT !.balances = insert(@, to, to_balance + amount)])

\* ---------------------------------------------------------- the simulator

\* this.circuitContext = <circuit>(tempContext, ...).context: the ledger of
\* the circuit's context replaces the simulator's.
Commit(L) ==
  /\ totalSupply' = L.totalSupply
  /\ balances' = L.balances
  /\ allowances' = L.allowances
  /\ tokenName' = L.tokenName
  /\ tokenSymbol' = L.tokenSymbol
  /\ tokenDecimals' = L.tokenDecimals

\* A circuit call that takes the context of the circuit also when it throws.
Apply_CommitsOnThrow(out) == Commit(out.ledger)

\* A circuit call of the simulator: a circuit that throws leaves
\* this.circuitContext as it was.
Apply(out) ==
  IF out.err = NoError THEN Commit(out.ledger) ELSE UNCHANGED ledgerVars

\* The caller of an operation run with key sk (None when sk is no Bytes<32>).
CallerOf(sk) == IF sk \in Bytes32 THEN compute_address(sk) ELSE None

Op(op, a, b, amount, err, ret) ==
  [op |-> op, caller |-> CallerOf(secretKey), a |-> a, b |-> b,
   amount |-> amount, err |-> err, ret |-> ret]

\* The history of a run that records every pair: no approve call yet.
NoneApproved == [p \in Addresses \X Addresses |-> [calls |-> 0, total |-> 0]]

\* The history of a run that records every pair: nothing moved yet.
NoneSpent == [p \in Addresses \X Addresses |-> 0]

\* No Board component is mounted.
NoBoard == [mounted |-> FALSE]

\* No second simulator is run.
NoTwin == [on |-> FALSE, ledger |-> None, err |-> NoError, ret |-> None]

\* The second simulator after a circuit call with outcome out: as in Apply,
\* its context is replaced only when the circuit did not throw.
TwinAfter(out) ==
  [on |-> TRUE, ledger |-> IF out.err = NoError THEN out.ledger ELSE twin.ledger,
   err |-> out.err, ret |-> None]

\* The second simulator after a read that returned ret.
TwinRead(ret) == [on |-> TRUE, ledger |-> twin.ledger, err |-> NoError, ret |-> ret]

\* new MERC20Simulator(initialSupply, mintAddress, name, symbol, decimals, deployerSk?)
Init ==
  \E initialSupply \in InitialSupplies, mintAddress \in Addresses, name \in TokenNames,
     symbol \in TokenSymbols, decimals \in Decimals, deployerSk \in SecretKeys \cup {EmptyKey} :
    LET L == construct(initialSupply, mintAddress, name, symbol, decimals) IN
    /\ totalSupply = L.totalSupply
    /\ balances = L.balances
    /\ allowances = L.allowances
    /\ tokenName = L.tokenName
    /\ tokenSymbol = L.tokenSymbol
    /\ tokenDecimals = L.tokenDecimals
    /\ secretKey = deployerSk
    /\ ctorArgs = [initialSupply |-> initialSupply, mintAddress |-> mintAddress,
                   name |-> name, symbol |-> symbol, decimals |-> decimals]
    /\ lastOp = [op |-> "construct", caller |-> None, a |-> mintAddress, b |-> None,
                 amount |-> initialSupply, err |-> NoError, ret |-> None]
    /\ pre = L
    /\ steps = 0
    /\ approved = EmptyMap
    /\ spent = EmptyMap
    /\ twin = NoTwin
    /\ board = NoBoard

\* MERC20Simulator.setSk
SetSk(sk) ==
  /\ steps < MaxSteps
  /\ secretKey' = sk
  /\ lastOp' = [Op("setSk", sk, None, None, NoError, None) EXCEPT !.caller = None]
  /\ pre' = Ledger
  /\ steps' = steps + 1
  /\ twin' = IF ~twin.on THEN twin ELSE TwinRead(None)
  /\ UNCHANGED <<ledgerVars, ctorArgs, approved, spent, board>>

\* MERC20Simulator.transfer running the circuit on the context it held before
\* the previous call, not on the one that call left.
Transfer_StaleSnapshot(to, amount) ==
  LET out == transfer(pre, secretKey, to, amount) IN
  /\ steps < MaxSteps
  /\ Apply(out)
  /\ lastOp' = Op("transfer", to, None, amount, out.err, None)
  /\ pre' = Ledger
  /\ steps' = steps + 1
  /\ twin' = IF ~twin.on THEN twin
            ELSE TwinAfter(transfer(twin.ledger, secretKey, to, amount))
  /\ UNCHANGED <<secretKey, ctorArgs, approved, spent, board>>

\* MERC20Simulator.transfer
Transfer(to, amount) ==
  LET out == transfer(Ledger, secretKey, to, amount) IN
  /\ steps < MaxSteps
  /\ Apply(out)
  /\ lastOp' = Op("transfer", to, None, amount, out.err, None)
  /\ pre' = Ledger
  /\ steps' = steps + 1
  /\ twin' = IF ~twin.on THEN twin
            ELSE TwinAfter(transfer(twin.ledger, secretKey, to, amount))
  /\ UNCHANGED <<secretKey, ctorArgs, approved, spent, board>>

\* MERC20Simulator.approve
Approve(spender, amount) ==
  LET out == approve(Ledger, secretKey, spender, amount) IN
  /\ steps < MaxSteps
  /\ Apply(out)
  /\ lastOp' = Op("approve", spender, None, amount, out.err, None)
  /\ pre' = Ledger
  /\ steps' = steps + 1
  /\ twin' = IF ~twin.on THEN twin
            ELSE TwinAfter(approve(twin.ledger, secretKey, spender, amount))
  /\ approved' = IF out.err = NoError /\ <<CallerOf(secretKey), spender>> \in DOMAIN approved
                 THEN [approved EXCEPT ![<<CallerOf(secretKey), spender>>] =
                         [calls |-> @.calls + 1, total |-> @.total + amount]]
                 ELSE approved
  /\ UNCHANGED <<secretKey, ctorArgs, spent, board>>

\* MERC20Simulator.transferFrom
TransferFrom(from, to, amount) ==
  LET out == transferFrom(Ledger, secretKey, from, to, amount) IN
  /\ steps < MaxSteps
  /\ Apply(out)
  /\ lastOp' = Op("transferFrom", from, to, amount, out.err, None)
  /\ pre' = Ledger
  /\ steps' = steps + 1
  /\ twin' = IF ~twin.on THEN twin
            ELSE TwinAfter(transferFrom(twin.ledger, secretKey, from, to, amount))
  /\ spent' = IF out.err = NoError /\ <<from, CallerOf(secretKey)>> \in DOMAIN spent
              THEN [spent EXCEPT ![<<from, CallerOf(secretKey)>>] = @ + amount]
              ELSE spent
  /\ UNCHANGED <<secretKey, ctorArgs, approved, board>>

\* MERC20Simulator.balanceOf
BalanceOf(address) ==
  /\ steps < MaxSteps
  /\ lastOp' = Op("balanceOf", address, None, None, NoError, balanceOf(Ledger, address))
  /\ pre' = Ledger
  /\ steps' = steps + 1
  /\ twin' = IF ~twin.on THEN twin ELSE TwinRead(balanceOf(twin.ledger, address))
  /\ UNCHANGED <<ledgerVars, secretKey, ctorArgs, approved, spent, board>>

\* MERC20Simulator.allowance
Allowance(owner, spender) ==
  /\ steps < MaxSteps
  /\ lastOp' = Op("allowance", owner, spender, None, NoError, allowance(Ledger, owner, spender))
  /\ pre' = Ledger
  /\ steps' = steps + 1
  /\ twin' = IF ~twin.on THEN twin ELSE TwinRead(allowance(twin.ledger, owner, spender))
  /\ UNCHANGED <<ledgerVars, secretKey, ctorArgs, approved, spent, board>>

\* getLedger().totalSupply / circuit getTotalSupply
GetTotalSupply ==
  /\ steps < MaxSteps
  /\ lastOp' = Op("getTotalSupply", None, None, None, NoError, getTotalSupply(Ledger))
  /\ pre' = Ledger
  /\ steps' = steps + 1
  /\ twin' = IF ~twin.on THEN twin ELSE TwinRead(getTotalSupply(twin.ledger))
  /\ UNCHANGED <<ledgerVars, secretKey, ctorArgs, approved, spent, board>>

Next ==
  \/ \E sk \in SecretKeys : SetSk(sk)
  \/ \E to \in Addresses, amount \in Amounts : Transfer(to, amount)
  \/ \E spender \in Addresses, amount \in Amounts : Approve(spender, amount)
  \/ \E from \in Addresses, to \in Addresses, amount \in Amounts : TransferFrom(from, to, amount)
  \/ \E address \in Addresses : BalanceOf(address)
  \/ \E owner \in Addresses, spender \in Addresses : Allowance(owner, spender)
  \/ GetTotalSupply

Spec == Init /\ [][Next]_vars

\* The circuits as functions of any ledger of the declared type, not only of
\* a constructed one: balances is any Map<Bytes<32>, Uint<222>> whose entries
\* hold the largest value, so that a credit can leave the range (no ledger
\* built by the constructor gets there: its balances sum to totalSupply).
InitTyped ==
  \E holders \in SUBSET Addresses, name \in TokenNames, symbol \in TokenSymbols,
     decimals \in Decimals, sk \in SecretKeys :
    LET L == [totalSupply |-> MaxUint,
              balances |-> [a \in holders |-> MaxUint],
              allowances |-> EmptyMap,
              tokenName |-> name, tokenSymbol |-> symbol, tokenDecimals |-> decimals]
    IN
    /\ totalSupply = L.totalSupply
    /\ balances = L.balances
    /\ allowances = L.allowances
    /\ tokenName = L.tokenName
    /\ tokenSymbol = L.tokenSymbol
    /\ tokenDecimals = L.tokenDecimals
    /\ secretKey = sk
    /\ ctorArgs = [initialSupply |-> MaxUint, mintAddress |-> None,
                   name |-> name, symbol |-> symbol, decimals |-> decimals]
    /\ lastOp = [op |-> "ledger", caller |-> None, a |-> None, b |-> None,
                 amount |-> None, err |-> NoError, ret |-> None]
    /\ pre = L
    /\ steps = 0
    /\ approved = EmptyMap
    /\ spent = EmptyMap
    /\ twin = NoTwin
    /\ board = NoBoard

SpecTyped == InitTyped /\ [][Next]_vars

\* The same simulator, with the history of every (owner, spender) pair
\* recorded from the construction on.
InitTracked ==
  \E initialSupply \in InitialSupplies, mintAddress \in Addresses, name \in TokenNames,
     symbol \in TokenSymbols, decimals \in Decimals, deployerSk \in SecretKeys \cup {EmptyKey} :
    LET L == construct(initialSupply, mintAddress, name, symbol, decimals) IN
    /\ totalSupply = L.totalSupply
    /\ balances = L.balances
    /\ allowances = L.allowances
    /\ tokenName = L.tokenName
    /\ tokenSymbol = L.tokenSymbol
    /\ tokenDecimals = L.tokenDecimals
    /\ secretKey = deployerSk
    /\ ctorArgs = [initialSupply |-> initialSupply, mintAddress |-> mintAddress,
                   name |-> name, symbol |-> symbol, decimals |-> decimals]
    /\ lastOp = [op |-> "construct", caller |-> None, a |-> mintAddress, b |-> None,
                 amount |-> initialSupply, err |-> NoError, ret |-> None]
    /\ pre = L
    /\ steps = 0
    /\ approved = NoneApproved
    /\ spent = NoneSpent
    /\ twin = NoTwin
    /\ board = NoBoard

SpecTracked == InitTracked /\ [][Next]_vars

\* The ledger L with a zero-valued balances entry added for every address of
\* Z that has none.
WithZeroEntries(L, Z) ==
  [L EXCEPT !.balances =
     [a \in DOMAIN L.balances \cup Z |->
        IF a \in DOMAIN L.balances THEN L.balances[a] ELSE 0]]

\* The deployer key of the paired runs; setSk brings in the other keys.
TwinDeployerKeys == {0}

\* Two simulators given the same calls with the same keys: the first starts
\* on the constructed ledger, the second on a ledger that differs from it
\* only in holding a zero-valued balances entry for one address where the
\* first holds none.
InitTwin ==
  \E initialSupply \in InitialSupplies, mintAddress \in Addresses, name \in TokenNames,
     symbol \in TokenSymbols, decimals \in Decimals, deployerSk \in TwinDeployerKeys,
     zero \in Addresses :
    LET L == construct(initialSupply, mintAddress, name, symbol, decimals) IN
    /\ ~member(L.balances, zero)
    /\ totalSupply = L.totalSupply
    /\ balances = L.balances
    /\ allowances = L.allowances
    /\ tokenName = L.tokenName
    /\ tokenSymbol = L.tokenSymbol
    /\ tokenDecimals = L.tokenDecimals
    /\ secretKey = deployerSk
    /\ ctorArgs = [initialSupply |-> initialSupply, mintAddress |-> mintAddress,
                   name |-> name, symbol |-> symbol, decimals |-> decimals]
    /\ lastOp = [op |-> "construct", caller |-> None, a |-> mintAddress, b |-> None,
                 amount |-> initialSupply, err |-> NoError, ret |-> None]
    /\ pre = L
    /\ steps = 0
    /\ approved = EmptyMap
    /\ spent = EmptyMap
    /\ twin = [on |-> TRUE, ledger |-> WithZeroEntries(L, {zero}),
               err |-> NoError, ret |-> None]
    /\ board = NoBoard

SpecTwin == InitTwin /\ [][Next]_vars

\* ------------------------------------------------- the Board component

\* Handler calls, settlements and edits explored in one run.
MaxEvents == 4

\* An unset React state (useState<string>() without an initial value).
Undefined == "undefined"

\* Texts typed into address fields and into amount fields.
AddressTexts == {"", "aa"}

AmountTexts == {"", "1", "x"}

AddressFields ==
  {"transferTo", "approveSpender", "transferFromSender", "transferFromRecipient",
   "balanceAddress", "allowanceOwner", "allowanceSpender"}

AmountFields == {"transferAmount", "approveAmount", "transferFromAmount"}

Handlers == {"onTransfer", "onApprove", "onTransferFrom", "onCheckBalance", "onCheckAllowance"}

\* The handlers whose API call sends a transaction.
Mutating == {"onTransfer", "onApprove", "onTransferFrom"}

\* The state each handler requires to be non-empty, and clears on success.
InputsOf(h) ==
  CASE h = "onTransfer" -> {"transferTo", "transferAmount"}
    [] h = "onApprove" -> {"approveSpender", "approveAmount"}
    [] h = "onTransferFrom" ->
         {"transferFromSender", "transferFromRecipient", "transferFromAmount"}
    [] h = "onCheckBalance" -> {"balanceAddress"}
    [] h = "onCheckAllowance" -> {"allowanceOwner", "allowanceSpender"}

\* The field a mutating handler passes through BigInt(...).
AmountOf(h) ==
  CASE h = "onTransfer" -> "transferAmount"
    [] h = "onApprove" -> "approveAmount"
    [] h = "onTransferFrom" -> "transferFromAmount"

\* The state a reading handler stores the API's result in.
ResultOf(h) ==
  CASE h = "onCheckBalance" -> "balanceResult"
    [] h = "onCheckAllowance" -> "allowanceResult"

\* BigInt(text) throws a SyntaxError on a text that is no integer literal.
NotABigInt == 0 - 1

BigInt(text) ==
  CASE text = "0" -> 0
    [] text = "1" -> 1
    [] OTHER -> NotABigInt

SyntaxError == [isError |-> TRUE, message |-> "Cannot convert to a BigInt", value |-> ""]

\* What an API call rejects with: an Error with a message, or a value that
\* is no Error.
Rejections ==
  {[isError |-> TRUE, message |-> InsufficientBalance, value |-> ""],
   [isError |-> FALSE, message |-> "", value |-> "rejected"]}

\* What a failed deployment carries: an Error, its message possibly empty.
DeploymentErrors ==
  {[isError |-> TRUE, message |-> "", value |-> ""],
   [isError |-> TRUE, message |-> "deployment failed", value |-> ""]}

\* error instanceof Error ? error.message : String(error)
ErrorText(error) == IF error.isError THEN error.message ELSE error.value

\* What balanceOf and allowance resolve with.
ApiValues == {0, MaxUint}

Digits == <<"0", "1", "2", "3", "4", "5", "6", "7", "8", "9">>

\* bigint.toString()
RECURSIVE toString(_)
toString(n) == IF n < 10 THEN Digits[n + 1] ELSE toString(n \div 10) \o Digits[(n % 10) + 1]

NoRejection == [isError |-> FALSE, message |-> "", value |-> ""]

\* The React state of a Board just rendered with a boardDeployment$.
InitialState ==
  [boardDeployment |-> "in-progress", deployedBoardAPI |-> FALSE,
   errorMessage |-> Undefined, isWorking |-> TRUE,
   transferTo |-> "", transferAmount |-> "",
   approveSpender |-> "", approveAmount |-> "",
   transferFromSender |-> "", transferFromRecipient |-> "", transferFromAmount |-> "",
   balanceAddress |-> "", balanceResult |-> Undefined,
   allowanceOwner |-> "", allowanceSpender |-> "", allowanceResult |-> Undefined]

\* The record of the last event of the component: the handler, what it did,
\* the error it caught, and the state and the calls in flight before it.
Event(h, did, error) ==
  [handler |-> h, did |-> did, error |-> error,
   before |-> board.state, pendingBefore |-> board.pending]

\* The other variables, which the component does not touch.
simulatorVars ==
  <<totalSupply, balances, allowances, tokenName, tokenSymbol, tokenDecimals,
    secretKey, ctorArgs, lastOp, pre, steps, approved, spent, twin>>

\* The Board mounted over a deployment that is in progress.
InitBoard ==
  \E name \in TokenNames, symbol \in TokenSymbols, decimals \in Decimals :
    LET mintAddress == compute_address(0)
        L == construct(MaxUint, mintAddress, name, symbol, decimals)
    IN
    /\ totalSupply = L.totalSupply
    /\ balances = L.balances
    /\ allowances = L.allowances
    /\ tokenName = L.tokenName
    /\ tokenSymbol = L.tokenSymbol
    /\ tokenDecimals = L.tokenDecimals
    /\ secretKey = 0
    /\ ctorArgs = [initialSupply |-> MaxUint, mintAddress |-> mintAddress,
                   name |-> name, symbol |-> symbol, decimals |-> decimals]
    /\ lastOp = [op |-> "construct", caller |-> None, a |-> mintAddress, b |-> None,
                 amount |-> MaxUint, err |-> NoError, ret |-> None]
    /\ pre = L
    /\ steps = 0
    /\ approved = EmptyMap
    /\ spent = EmptyMap
    /\ twin = NoTwin
    /\ board = [mounted |-> TRUE, state |-> InitialState, pending |-> {}, events |-> 0,
                last |-> [handler |-> "none", did |-> "mounted", error |-> NoRejection,
                          before |-> InitialState, pendingBefore |-> {}]]

\* The effect on boardDeployment: the deployment has left 'in-progress'.
DeploymentSettled(status, error) ==
  /\ board.state.boardDeployment = "in-progress"
  /\ board' = [board EXCEPT
       !.state = IF status = "failed"
                 THEN [@ EXCEPT !.boardDeployment = status,
                                !.isWorking = FALSE,
                                !.errorMessage = IF error.message # "" THEN error.message
                                                 ELSE "Encountered an unexpected error."]
                 ELSE [@ EXCEPT !.boardDeployment = status,
                                !.isWorking = FALSE,
                                !.deployedBoardAPI = TRUE],
       !.last = Event("none", "deployment", NoRejection)]
  /\ UNCHANGED simulatorVars

\* onChange of a text field.
SetField(field, text) ==
  /\ board.events < MaxEvents
  /\ board.state[field] # text
  /\ board' = [board EXCEPT !.state[field] = text,
                            !.events = @ + 1,
                            !.last = Event("none", "edit", NoRejection)]
  /\ UNCHANGED simulatorVars

\* A handler up to its await: the early return, the try block up to the API
\* call, and catch and finally when BigInt throws or no API is there.
HandlerCall(h) ==
  LET state == board.state IN
  /\ board.events < MaxEvents
  /\ h \notin board.pending
  /\ board' =
       IF \E f \in InputsOf(h) : state[f] = ""
       THEN [board EXCEPT !.events = @ + 1, !.last = Event(h, "returned", NoRejection)]
       ELSE IF ~state.deployedBoardAPI
       THEN [board EXCEPT !.state.isWorking = FALSE,
                          !.events = @ + 1,
                          !.last = Event(h, "no api", NoRejection)]
       ELSE IF h \in Mutating /\ BigInt(state[AmountOf(h)]) = NotABigInt
       THEN [board EXCEPT !.state.isWorking = FALSE,
                          !.state.errorMessage = ErrorText(SyntaxError),
                          !.events = @ + 1,
                          !.last = Event(h, "threw", SyntaxError)]
       ELSE [board EXCEPT !.state.isWorking = TRUE,
                          !.pending = @ \cup {h},
                          !.events = @ + 1,
                          !.last = Event(h, "called", NoRejection)]
  /\ UNCHANGED simulatorVars

onTransfer == HandlerCall("onTransfer")

onApprove == HandlerCall("onApprove")

onTransferFrom == HandlerCall("onTransferFrom")

onCheckBalance == HandlerCall("onCheckBalance")

onCheckAllowance == HandlerCall("onCheckAllowance")

\* A handler after its await, the API call resolved: the setters after the
\* call, then finally.
Resolve(h, value) ==
  /\ h \in board.pending
  /\ board' = [board EXCEPT
       !.state = [f \in DOMAIN @ |->
                    IF f = "isWorking" THEN FALSE
                    ELSE IF h \in Mutating /\ f \in InputsOf(h) THEN ""
                    ELSE IF h \notin Mutating /\ f = ResultOf(h) THEN toString(value)
                    ELSE @[f]],
       !.pending = @ \ {h},
       !.last = Event(h, "resolved", NoRejection)]
  /\ UNCHANGED simulatorVars

\* A handler whose catch block is followed by no finally.
Reject_WithoutFinally(h, error) ==
  /\ h \in board.pending
  /\ board' = [board EXCEPT
       !.state.errorMessage = ErrorText(error),
       !.pending = @ \ {h},
       !.last = Event(h, "rejected", error)]
  /\ UNCHANGED simulatorVars

\* A handler after its await, the API call rejected: catch, then finally.
Reject(h, error) ==
  /\ h \in board.pending
  /\ board' = [board EXCEPT
       !.state.errorMessage = ErrorText(error),
       !.state.isWorking = FALSE,
       !.pending = @ \ {h},
       !.last = Event(h, "rejected", error)]
  /\ UNCHANGED simulatorVars

NextBoard ==
  \/ \E status \in {"deployed", "failed"}, error \in DeploymentErrors :
       DeploymentSettled(status, error)
  \/ \E field \in AddressFields, text \in AddressTexts : SetField(field, text)
  \/ \E field \in AmountFields, text \in AmountTexts : SetField(field, text)
  \/ onTransfer
  \/ onApprove
  \/ onTransferFrom
  \/ onCheckBalance
  \/ onCheckAllowance
  \/ \E h \in Handlers, value \in ApiValues : Resolve(h, value)
  \/ \E h \in Handlers, error \in Rejections : Reject(h, error)

SpecBoard == InitBoard /\ [][NextBoard]_vars

\* ------------------------------------------------------------ properties

\* What the properties read of a ledger value, stated without the circuits.
Bal(L, a) == IF a \in DOMAIN L.balances THEN L.balances[a] ELSE 0

HasEntry(L, o, s) == o \in DOMAIN L.allowances /\ s \in DOMAIN L.allowances[o]

Allw(L, o, s) == IF HasEntry(L, o, s) THEN L.allowances[o][s] ELSE 0

RECURSIVE SumOf(_, _)
SumOf(f, S) ==
  IF S = {} THEN 0
  ELSE LET x == CHOOSE y \in S : TRUE IN f[x] + SumOf(f, S \ {x})

\* The last operation was a call of the named circuit made with a 32-byte key.
Called(op) == lastOp.op = op /\ secretKey \in Bytes32

Succeeded == lastOp.err = NoError

\* C1 (conservation): in every state reachable from construction by any
\* sequence of calls, successful or failing, by any callers, the sum of all
\* stored balances equals totalSupply.
C1_Conservation == SumOf(balances, DOMAIN balances) = totalSupply

\* C1's case: a transferFrom by a third party has moved a positive amount
\* between two different addresses.
C1_Witness ==
  /\ Called("transferFrom") /\ Succeeded
  /\ lastOp.amount > 0
  /\ lastOp.a # lastOp.b
  /\ lastOp.caller \notin {lastOp.a, lastOp.b}

\* C2 (failure atomicity): when a transfer or transferFrom call fails, the
\* ledger after the call is the ledger before it (balances, allowances,
\* totalSupply and metadata), and no partial write is observable: the context
\* the failing circuit leaves behind holds no write either.
C2_FailureAtomic ==
  /\ (lastOp.op = "transfer" /\ ~Succeeded) =>
       /\ Ledger = pre
       /\ transfer(pre, secretKey, lastOp.a, lastOp.amount).ledger = pre
  /\ (lastOp.op = "transferFrom" /\ ~Succeeded) =>
       /\ Ledger = pre
       /\ transferFrom(pre, secretKey, lastOp.a, lastOp.b, lastOp.amount).ledger = pre

\* C2's case: a transferFrom failed on the balance after its allowance check
\* had passed, on a ledger that holds balances and allowances.
C2_Witness ==
  /\ Called("transferFrom")
  /\ lastOp.err = InsufficientBalance
  /\ Allw(pre, lastOp.a, lastOp.caller) >= lastOp.amount
  /\ totalSupply > 0

\* C3: transfer(to, amount) called with secret key sk fails with
\* InsufficientBalance exactly when the balance of from = compute_address(sk),
\* absent counted as 0, is less than amount; the balances of from and to are
\* then unchanged.
C3_TransferInsufficient ==
  Called("transfer") =>
    LET from == lastOp.caller
        to == lastOp.a
    IN /\ (lastOp.err = InsufficientBalance) <=> (Bal(pre, from) < lastOp.amount)
       /\ lastOp.err = InsufficientBalance =>
            /\ Bal(Ledger, from) = Bal(pre, from)
            /\ Bal(Ledger, to) = Bal(pre, to)

\* C3's case: a transfer of more than the caller's nonzero balance was rejected.
C3_Witness ==
  /\ Called("transfer")
  /\ lastOp.err = InsufficientBalance
  /\ 0 < Bal(pre, lastOp.caller)
  /\ Bal(pre, lastOp.caller) < lastOp.amount

\* C4: a successful transfer(to, amount) with to different from the caller's
\* address decreases the caller's balance by exactly amount, increases to's
\* balance by exactly amount (the entry is created from 0 when absent) and
\* leaves totalSupply unchanged.
C4_TransferMoves ==
  (Called("transfer") /\ Succeeded /\ lastOp.a # lastOp.caller) =>
    LET from == lastOp.caller
        to == lastOp.a
    IN /\ Bal(Ledger, from) = Bal(pre, from) - lastOp.amount
       /\ Bal(Ledger, to) = Bal(pre, to) + lastOp.amount
       /\ to \in DOMAIN balances
       /\ balances[to] = (IF to \in DOMAIN pre.balances THEN pre.balances[to] ELSE 0)
                           + lastOp.amount
       /\ totalSupply = pre.totalSupply

\* C4's case: a positive amount went to an address that had no entry.
C4_Witness ==
  /\ Called("transfer") /\ Succeeded
  /\ lastOp.a # lastOp.caller
  /\ lastOp.amount > 0
  /\ lastOp.a \notin DOMAIN pre.balances

\* C5: transferFrom(from, to, amount) reports the first failing precondition,
\* in this order: NoAllowanceSet when allowances holds no (from, spender)
\* entry; otherwise InsufficientAllowance when the allowance is below amount;
\* otherwise InsufficientBalance when from's balance is below amount; and none
\* of the three otherwise.
C5_TransferFromOrder ==
  Called("transferFrom") =>
    LET from == lastOp.a
        spender == lastOp.caller
        amount == lastOp.amount
    IN IF ~HasEntry(pre, from, spender) THEN lastOp.err = NoAllowanceSet
       ELSE IF Allw(pre, from, spender) < amount THEN lastOp.err = InsufficientAllowance
       ELSE IF Bal(pre, from) < amount THEN lastOp.err = InsufficientBalance
       ELSE lastOp.err \notin {NoAllowanceSet, InsufficientAllowance, InsufficientBalance}

\* C5's case: allowance and balance were both too small, and the allowance
\* was the one reported.
C5_Witness ==
  /\ Called("transferFrom")
  /\ HasEntry(pre, lastOp.a, lastOp.caller)
  /\ Allw(pre, lastOp.a, lastOp.caller) < lastOp.amount
  /\ Bal(pre, lastOp.a) < lastOp.amount
  /\ lastOp.err = InsufficientAllowance

\* C6: a successful transferFrom(from, to, amount) by spender with from
\* different from to decreases allowance(from, spender), decreases
\* balanceOf(from) and increases balanceOf(to), each by exactly amount.
C6_TransferFromMoves ==
  (Called("transferFrom") /\ Succeeded /\ lastOp.a # lastOp.b) =>
    LET from == lastOp.a
        to == lastOp.b
        spender == lastOp.caller
    IN /\ Allw(Ledger, from, spender) = Allw(pre, from, spender) - lastOp.amount
       /\ Bal(Ledger, from) = Bal(pre, from) - lastOp.amount
       /\ Bal(Ledger, to) = Bal(pre, to) + lastOp.amount

\* C6's case: part of an allowance was spent (approve 400, transferFrom 250).
C6_Witness ==
  /\ Called("transferFrom") /\ Succeeded
  /\ lastOp.a # lastOp.b
  /\ lastOp.amount > 0
  /\ Allw(pre, lastOp.a, lastOp.caller) > lastOp.amount
  /\ Allw(Ledger, lastOp.a, lastOp.caller) > 0

\* C7: approve sets the allowance absolutely: whatever value A an earlier
\* approve left for (owner, spender), after approve(spender, B) the allowance
\* is B.
C7_ApproveOverwrites ==
  Called("approve") =>
    /\ HasEntry(Ledger, lastOp.caller, lastOp.a)
    /\ Allw(Ledger, lastOp.caller, lastOp.a) = lastOp.amount

\* C7's case: approve(spender, B) on a pair that held a nonzero A # B.
C7_Witness ==
  /\ Called("approve") /\ Succeeded
  /\ HasEntry(pre, lastOp.caller, lastOp.a)
  /\ Allw(pre, lastOp.caller, lastOp.a) > 0
  /\ lastOp.amount > 0
  /\ Allw(pre, lastOp.caller, lastOp.a) # lastOp.amount

\* C8: approve never fails: whatever the ledger, the 32-byte caller key, the
\* spender and the amount are, and whatever the owner's balance and
\* totalSupply are, a call of approve succeeds.
C8_ApproveNeverFails == Called("approve") => Succeeded

\* C8's case: an owner without a balance entry approved more than totalSupply.
C8_Witness ==
  /\ Called("approve") /\ Succeeded
  /\ lastOp.caller \notin DOMAIN pre.balances
  /\ lastOp.amount > totalSupply

\* C9: allowance(owner, spender) changes in a step only if the step is an
\* approve(spender, amount) by owner, which sets it to amount, or a successful
\* transferFrom(owner, _, amount) by spender, which decreases it by amount;
\* hence transfer, the reads, setSk and failing calls change no allowance,
\* and only approve makes an allowance nonzero.
C9_AllowanceFrame ==
  /\ allowances # pre.allowances =>
       \A o \in Addresses, s \in Addresses :
         /\ Allw(Ledger, o, s) # Allw(pre, o, s) =>
              \/ /\ lastOp.op = "approve" /\ Succeeded
                 /\ lastOp.caller = o /\ lastOp.a = s
                 /\ Allw(Ledger, o, s) = lastOp.amount
              \/ /\ lastOp.op = "transferFrom" /\ Succeeded
                 /\ lastOp.a = o /\ lastOp.caller = s
                 /\ Allw(Ledger, o, s) = Allw(pre, o, s) - lastOp.amount
         /\ (Allw(pre, o, s) = 0 /\ Allw(Ledger, o, s) # 0) => lastOp.op = "approve"
  /\ lastOp.op = "construct" =>
       \A o \in Addresses, s \in Addresses : Allw(Ledger, o, s) = 0

\* C9's case: a transferFrom by a spender who is not the owner spent the
\* whole allowance, and the entry stays with value 0.
C9_Witness ==
  /\ Called("transferFrom") /\ Succeeded
  /\ lastOp.caller # lastOp.a
  /\ Allw(Ledger, lastOp.a, lastOp.caller) < Allw(pre, lastOp.a, lastOp.caller)
  /\ HasEntry(Ledger, lastOp.a, lastOp.caller)
  /\ Allw(Ledger, lastOp.a, lastOp.caller) = 0

\* C10: every stored balance and allowance is in 0 .. 2^222 - 1 in every
\* reachable state, and an operation whose subtraction would go below 0
\* fails and stores nothing.
C10_Range ==
  /\ \A a \in DOMAIN balances : balances[a] \in Uint
  /\ \A o \in DOMAIN allowances : \A s \in DOMAIN allowances[o] : allowances[o][s] \in Uint
  /\ (Called("transfer") /\ Bal(pre, lastOp.caller) < lastOp.amount) =>
       ~Succeeded /\ Ledger = pre
  /\ (Called("transferFrom")
        /\ \/ Allw(pre, lastOp.a, lastOp.caller) < lastOp.amount
           \/ Bal(pre, lastOp.a) < lastOp.amount) =>
       ~Succeeded /\ Ledger = pre

\* C10's case: a spender holding the largest allowance asked for more than
\* the owner's balance, and nothing was stored.
C10_Witness ==
  /\ Called("transferFrom")
  /\ Allw(pre, lastOp.a, lastOp.caller) = MaxUint
  /\ Bal(pre, lastOp.a) < lastOp.amount
  /\ ~Succeeded

\* C11: totalSupply is constant after construction: no call, successful or
\* failing, changes it, and getTotalSupply always returns the initialSupply
\* the constructor was given.
C11_TotalSupplyConstant ==
  /\ totalSupply = ctorArgs.initialSupply
  /\ totalSupply = pre.totalSupply
  /\ lastOp.op = "getTotalSupply" => lastOp.ret = ctorArgs.initialSupply

\* C11's case: getTotalSupply was read on a ledger whose tokens had left the
\* mint address.
C11_Witness ==
  /\ lastOp.op = "getTotalSupply"
  /\ lastOp.ret > 0
  /\ Bal(Ledger, ctorArgs.mintAddress) < ctorArgs.initialSupply

\* C12 (metadata immutability): tokenName, tokenSymbol and tokenDecimals hold
\* the values given to the constructor in every reachable state, and no call
\* changes them.
C12_MetadataImmutable ==
  /\ tokenName = ctorArgs.name
  /\ tokenSymbol = ctorArgs.symbol
  /\ tokenDecimals = ctorArgs.decimals
  /\ <<tokenName, tokenSymbol, tokenDecimals>>
       = <<pre.tokenName, pre.tokenSymbol, pre.tokenDecimals>>

\* C12's case: a transferFrom has moved tokens on a ledger that an approve
\* and an earlier movement of tokens had already written.
C12_Witness ==
  /\ Called("transferFrom") /\ Succeeded
  /\ lastOp.amount > 0
  /\ Bal(pre, ctorArgs.mintAddress) < ctorArgs.initialSupply

\* C13: immediately after construct(initialSupply, mintAddress, name, symbol,
\* decimals), balanceOf(mintAddress) = initialSupply, balanceOf(x) = 0 for
\* every other address x, totalSupply = initialSupply, the allowances map is
\* empty and the metadata equals the arguments, for every initialSupply
\* including 0.
C13_Construct ==
  lastOp.op = "construct" =>
    /\ balanceOf(Ledger, ctorArgs.mintAddress) = ctorArgs.initialSupply
    /\ \A x \in Addresses \ {ctorArgs.mintAddress} : balanceOf(Ledger, x) = 0
    /\ getTotalSupply(Ledger) = ctorArgs.initialSupply
    /\ DOMAIN allowances = {}
    /\ \A o \in Addresses, s \in Addresses : allowance(Ledger, o, s) = 0
    /\ tokenName = ctorArgs.name
    /\ tokenSymbol = ctorArgs.symbol
    /\ tokenDecimals = ctorArgs.decimals

\* C13's case: a ledger constructed with the largest supply.
C13_Witness ==
  /\ lastOp.op = "construct"
  /\ ctorArgs.initialSupply = MaxUint
  /\ balances[ctorArgs.mintAddress] = MaxUint

\* C13's other case: a ledger constructed with supply 0.
C13_WitnessZero ==
  /\ lastOp.op = "construct"
  /\ ctorArgs.initialSupply = 0
  /\ ctorArgs.mintAddress \in DOMAIN balances

\* C14 (self-transfer identity): transfer(to, X) with to the caller's own
\* address and balanceOf(from) >= X succeeds and leaves balanceOf(from)
\* unchanged; no tokens are created or destroyed (every balance and
\* totalSupply are as before).
C14_SelfTransfer ==
  (Called("transfer") /\ lastOp.a = lastOp.caller
     /\ Bal(pre, lastOp.caller) >= lastOp.amount) =>
    /\ Succeeded
    /\ Bal(Ledger, lastOp.caller) = Bal(pre, lastOp.caller)
    /\ \A x \in Addresses : Bal(Ledger, x) = Bal(pre, x)
    /\ totalSupply = pre.totalSupply

\* C14's case: a holder sent a positive amount to their own address.
C14_Witness ==
  /\ Called("transfer") /\ Succeeded
  /\ lastOp.a = lastOp.caller
  /\ lastOp.amount > 0

\* C15: transferFrom(from, to, amount) with from = to, called by a spender
\* who holds an allowance entry of at least amount under from, with
\* balanceOf(from) >= amount, succeeds, leaves balanceOf(from) unchanged and
\* decreases allowance(from, spender) by amount.
C15_SelfTransferFrom ==
  (Called("transferFrom") /\ lastOp.a = lastOp.b
     /\ HasEntry(pre, lastOp.a, lastOp.caller)
     /\ Allw(pre, lastOp.a, lastOp.caller) >= lastOp.amount
     /\ Bal(pre, lastOp.a) >= lastOp.amount) =>
    /\ Succeeded
    /\ Bal(Ledger, lastOp.a) = Bal(pre, lastOp.a)
    /\ \A x \in Addresses : Bal(Ledger, x) = Bal(pre, x)
    /\ Allw(Ledger, lastOp.a, lastOp.caller)
         = Allw(pre, lastOp.a, lastOp.caller) - lastOp.amount

\* C15's case: a spender other than the owner moved a positive amount from
\* the owner to the owner.
C15_Witness ==
  /\ Called("transferFrom") /\ Succeeded
  /\ lastOp.a = lastOp.b
  /\ lastOp.caller # lastOp.a
  /\ lastOp.amount > 0

\* C16 as stated: transfer(to, 0) always succeeds, for every ledger, caller
\* and recipient, and the ledger after the call equals the ledger before it.
C16_ZeroTransferLedgerEqual ==
  (Called("transfer") /\ lastOp.amount = 0) => (Succeeded /\ Ledger = pre)

\* C16, amended: transfer(to, 0) by a caller holding a 32-byte key always
\* succeeds, whatever the ledger, the caller's balance entry and the
\* recipient are, and changes no balanceOf, no allowance, not totalSupply and
\* not the metadata; the stored balances map afterwards holds an entry for
\* the caller and for to (with value 0 where it held none), and no other new
\* entry.
C16_ZeroTransfer ==
  (Called("transfer") /\ lastOp.amount = 0) =>
    /\ Succeeded
    /\ \A x \in Addresses : Bal(Ledger, x) = Bal(pre, x)
    /\ [Ledger EXCEPT !.balances = pre.balances] = pre
    /\ DOMAIN balances = DOMAIN pre.balances \cup {lastOp.caller, lastOp.a}

\* C16's case: a caller with no balance entry sent 0 to another address with
\* no balance entry.
C16_Witness ==
  /\ Called("transfer") /\ Succeeded
  /\ lastOp.amount = 0
  /\ lastOp.caller # lastOp.a
  /\ lastOp.caller \notin DOMAIN pre.balances
  /\ lastOp.a \notin DOMAIN pre.balances

\* The balance of `to` that the credit of a movement from `from` adds to: the
\* stored one, after the debit of `from`.
CreditBase(from, to, amount) ==
  IF to = from THEN Bal(pre, from) - amount ELSE Bal(pre, to)

\* C17 (overflow rejection): a transfer or transferFrom that reaches its
\* credit (its earlier assertions hold) and whose credit balances[to] + amount
\* would exceed 2^222 - 1 fails with ArithmeticOverflow and leaves the ledger
\* as it was, the debit of from included; no stored balance is ever outside
\* 0 .. 2^222 - 1 (nothing wrapped or truncated is stored). Checked on the
\* circuits as functions of any ledger of the declared type.
C17_OverflowRejected ==
  /\ \A x \in DOMAIN balances : balances[x] \in Uint
  /\ (Called("transfer")
        /\ Bal(pre, lastOp.caller) >= lastOp.amount
        /\ CreditBase(lastOp.caller, lastOp.a, lastOp.amount) + lastOp.amount > MaxUint) =>
       /\ lastOp.err = ArithmeticOverflow
       /\ Ledger = pre
  /\ (Called("transferFrom")
        /\ HasEntry(pre, lastOp.a, lastOp.caller)
        /\ Allw(pre, lastOp.a, lastOp.caller) >= lastOp.amount
        /\ Bal(pre, lastOp.a) >= lastOp.amount
        /\ CreditBase(lastOp.a, lastOp.b, lastOp.amount) + lastOp.amount > MaxUint) =>
       /\ lastOp.err = ArithmeticOverflow
       /\ Ledger = pre
  /\ lastOp.err = ArithmeticOverflow => Ledger = pre

\* C17's case: a transfer of a positive amount that the sender could pay was
\* rejected because the recipient's balance could not hold it.
C17_Witness ==
  /\ Called("transfer")
  /\ lastOp.err = ArithmeticOverflow
  /\ lastOp.amount > 0
  /\ Bal(pre, lastOp.caller) >= lastOp.amount
  /\ Bal(pre, lastOp.a) + lastOp.amount > MaxUint

\* C17's case for transferFrom: allowance and balance sufficed and the credit
\* was rejected.
C17_WitnessTransferFrom ==
  /\ Called("transferFrom")
  /\ lastOp.err = ArithmeticOverflow
  /\ lastOp.amount > 0
  /\ Allw(pre, lastOp.a, lastOp.caller) >= lastOp.amount
  /\ Bal(pre, lastOp.b) + lastOp.amount > MaxUint

\* C18: the reads never fail and change nothing: balanceOf(owner) returns
\* the stored balance, or 0 when owner has no entry; allowance(owner, spender)
\* returns the stored value, or 0 when the owner's inner map is absent or
\* holds no entry for spender; getTotalSupply returns totalSupply; the ledger
\* after a read is the ledger before it. A read needs no secret key.
C18_ReadsPure ==
  /\ lastOp.op = "balanceOf" =>
       /\ Succeeded /\ Ledger = pre
       /\ lastOp.ret = (IF lastOp.a \in DOMAIN pre.balances
                        THEN pre.balances[lastOp.a] ELSE 0)
  /\ lastOp.op = "allowance" =>
       /\ Succeeded /\ Ledger = pre
       /\ lastOp.ret = (IF lastOp.a \notin DOMAIN pre.allowances THEN 0
                        ELSE IF lastOp.b \notin DOMAIN pre.allowances[lastOp.a] THEN 0
                        ELSE pre.allowances[lastOp.a][lastOp.b])
  /\ lastOp.op = "getTotalSupply" =>
       /\ Succeeded /\ Ledger = pre
       /\ lastOp.ret = pre.totalSupply

\* C18's case: allowance was read for an owner whose inner map exists and
\* holds a nonzero entry, but none for the spender asked about.
C18_Witness ==
  /\ lastOp.op = "allowance"
  /\ lastOp.a \in DOMAIN allowances
  /\ lastOp.b \notin DOMAIN allowances[lastOp.a]
  /\ \E s \in DOMAIN allowances[lastOp.a] : allowances[lastOp.a][s] > 0
  /\ lastOp.ret = 0

\* C20: the effective caller of every mutating operation is compute_address
\* of the secret key the private state holds at that call, and nothing else:
\* a successful transfer debits exactly that address, approve writes under
\* exactly that address as owner, a successful transferFrom consumes the
\* allowance that from granted to exactly that address as spender; setSk(sk)
\* makes sk the key of every later call and touches nothing else.
C20_EffectiveCaller ==
  /\ lastOp.op = "setSk" => (secretKey = lastOp.a /\ Ledger = pre)
  /\ (Called("transfer") /\ Succeeded) =>
       LET from == compute_address(secretKey) IN
       /\ Bal(pre, from) >= lastOp.amount
       /\ \A x \in Addresses \ {lastOp.a} :
            Bal(Ledger, x) = Bal(pre, x) - (IF x = from THEN lastOp.amount ELSE 0)
  /\ Called("approve") =>
       LET owner == compute_address(secretKey) IN
       /\ HasEntry(Ledger, owner, lastOp.a)
       /\ allowances[owner][lastOp.a] = lastOp.amount
       /\ \A o \in Addresses \ {owner} :
            /\ o \in DOMAIN allowances <=> o \in DOMAIN pre.allowances
            /\ o \in DOMAIN allowances => allowances[o] = pre.allowances[o]
  /\ (Called("transferFrom") /\ Succeeded) =>
       LET spender == compute_address(secretKey) IN
       /\ HasEntry(pre, lastOp.a, spender)
       /\ pre.allowances[lastOp.a][spender] >= lastOp.amount
       /\ allowances = [pre.allowances EXCEPT ![lastOp.a][spender] = @ - lastOp.amount]
  /\ lastOp.op \in {"transfer", "approve", "transferFrom"} =>
       lastOp.caller = (IF secretKey \in Bytes32 THEN compute_address(secretKey) ELSE None)

\* C20's case: after the owner's approve and a setSk, a spender who is not
\* the owner spent a positive part of the allowance granted to them.
C20_Witness ==
  /\ Called("transferFrom") /\ Succeeded
  /\ lastOp.amount > 0
  /\ compute_address(secretKey) # lastOp.a
  /\ Allw(Ledger, lastOp.a, compute_address(secretKey))
       = Allw(pre, lastOp.a, compute_address(secretKey)) - lastOp.amount

\* C20's case for transfer: a key set with setSk, which is not the mint
\* address's, paid a positive amount.
C20_WitnessTransfer ==
  /\ Called("transfer") /\ Succeeded
  /\ lastOp.amount > 0
  /\ compute_address(secretKey) # ctorArgs.mintAddress
  /\ lastOp.a # compute_address(secretKey)

\* The ledger of the context that the last call's circuit was left with, run
\* again on the ledger and with the key it was called with.
ContextLeft ==
  IF lastOp.op = "transfer"
    THEN transfer(pre, secretKey, lastOp.a, lastOp.amount).ledger
  ELSE IF lastOp.op = "approve"
    THEN approve(pre, secretKey, lastOp.a, lastOp.amount).ledger
  ELSE IF lastOp.op = "transferFrom"
    THEN transferFrom(pre, secretKey, lastOp.a, lastOp.b, lastOp.amount).ledger
  ELSE pre

\* C22: every mutating operation (transfer, approve, transferFrom) validates
\* every condition that can make it fail before its first write to the
\* ledger: whenever a call made on a reachable ledger fails, the circuit has
\* written nothing at the point of the failure, and the failure is one of
\* the assertions that precede the writes (or the witness's type check).
C22_ValidateBeforeWrite ==
  (lastOp.op \in {"transfer", "approve", "transferFrom"} /\ ~Succeeded) =>
    /\ ContextLeft = pre
    /\ lastOp.err \in {WitnessTypeError, InsufficientBalance, NoAllowanceSet,
                        InsufficientAllowance}

\* C22's case: a transferFrom was rejected by its allowance assertion
\* although the owner's balance covered the amount.
C22_Witness ==
  /\ Called("transferFrom")
  /\ lastOp.err = InsufficientAllowance
  /\ lastOp.amount > 0
  /\ Bal(pre, lastOp.a) >= lastOp.amount
  /\ ContextLeft = pre

\* C23 (serial application prevents double spending): calls are applied one
\* at a time, each to the ledger the previous one left, so of two transfer
\* calls by the same caller, applied one after the other, whose amounts a1
\* and a2 add up to more than the caller's balance before the first, the
\* second fails with InsufficientBalance, whatever its recipient is: it
\* observes the first one's debit. The caller receives nothing in between:
\* the first is not a transfer to the caller's own address, whose credit
\* gives the amount back (C14).
C23_NoDoubleSpend ==
  (Called("transfer") /\ Succeeded /\ lastOp.a # lastOp.caller) =>
    \A to2 \in Addresses, a2 \in Amounts :
      lastOp.amount + a2 > Bal(pre, lastOp.caller) =>
        transfer(Ledger, secretKey, to2, a2).err = InsufficientBalance

\* C23's case: the caller has paid a1 > 0 to someone else, and an amount a2
\* that the balance before that payment covered is now refused.
C23_Witness ==
  /\ Called("transfer") /\ Succeeded
  /\ lastOp.a # lastOp.caller
  /\ lastOp.amount > 0
  /\ \E to2 \in Addresses, a2 \in Amounts :
       /\ a2 <= Bal(pre, lastOp.caller)
       /\ transfer(pre, secretKey, to2, a2).err = NoError
       /\ transfer(Ledger, secretKey, to2, a2).err = InsufficientBalance

\* C24 (no terminal state): in every state reachable from construct a
\* mutating operation can succeed, for every caller holding a key: an approve,
\* and a transfer of amount 0 to any recipient; the ledger never reaches a
\* state in which every call fails.
C24_NoTerminalState ==
  \A sk \in SecretKeys :
    /\ \E spender \in Addresses, amount \in Amounts :
         approve(Ledger, sk, spender, amount).err = NoError
    /\ \A to \in Addresses : transfer(Ledger, sk, to, 0).err = NoError

\* C24's case: a ledger without any token and without any allowance, on
\* which a transfer of 0 has just succeeded and nothing else can move.
C24_Witness ==
  /\ Called("transfer") /\ Succeeded
  /\ lastOp.amount = 0
  /\ totalSupply = 0
  /\ DOMAIN allowances = {}
  /\ \A sk \in SecretKeys, to \in Addresses :
       transfer(Ledger, sk, to, 1).err = InsufficientBalance

\* C25: approve(spender, amount) by owner changes only the entry
\* allowances[owner][spender]: the owner's entries for other spenders, the
\* allowances of other owners, all balances, totalSupply and the metadata
\* are unchanged; the owner's inner map is created only when the owner had
\* none, and otherwise kept.
C25_ApproveFrame ==
  Called("approve") =>
    LET owner == lastOp.caller
        spender == lastOp.a
    IN /\ [Ledger EXCEPT !.allowances = pre.allowances] = pre
       /\ DOMAIN allowances = DOMAIN pre.allowances \cup {owner}
       /\ \A o \in DOMAIN pre.allowances \ {owner} : allowances[o] = pre.allowances[o]
       /\ DOMAIN allowances[owner]
            = (IF owner \in DOMAIN pre.allowances
               THEN DOMAIN pre.allowances[owner] ELSE {}) \cup {spender}
       /\ owner \in DOMAIN pre.allowances =>
            \A s \in DOMAIN pre.allowances[owner] \ {spender} :
              allowances[owner][s] = pre.allowances[owner][s]
       /\ \A o \in Addresses, s \in Addresses :
            <<o, s>> # <<owner, spender>> => Allw(Ledger, o, s) = Allw(pre, o, s)

\* C25's case: an owner who had granted a nonzero allowance to one spender
\* approved another spender, on a ledger that holds tokens.
C25_Witness ==
  /\ Called("approve") /\ Succeeded
  /\ totalSupply > 0
  /\ \E s \in Addresses \ {lastOp.a} :
       /\ HasEntry(pre, lastOp.caller, s)
       /\ Allw(pre, lastOp.caller, s) > 0
       /\ Allw(Ledger, lastOp.caller, s) = Allw(pre, lastOp.caller, s)

\* C26: a successful transfer or transferFrom changes balanceOf only for its
\* from and to addresses: the balance of every third address is unchanged,
\* the spender calling transferFrom included when it is neither from nor to.
C26_BalanceFrame ==
  /\ (Called("transfer") /\ Succeeded) =>
       \A x \in Addresses \ {lastOp.caller, lastOp.a} : Bal(Ledger, x) = Bal(pre, x)
  /\ (Called("transferFrom") /\ Succeeded) =>
       \A x \in Addresses \ {lastOp.a, lastOp.b} : Bal(Ledger, x) = Bal(pre, x)

\* C26's case: a spender who is neither from nor to moved a positive amount
\* between two other addresses, and the spender's own balance stayed put.
C26_Witness ==
  /\ Called("transferFrom") /\ Succeeded
  /\ lastOp.amount > 0
  /\ lastOp.caller \notin {lastOp.a, lastOp.b}
  /\ lastOp.a # lastOp.b
  /\ Bal(Ledger, lastOp.caller) = Bal(pre, lastOp.caller)

\* C27 (authorization): in every step that strictly decreases balanceOf(X),
\* either the step is a transfer called with a secret key whose
\* compute_address is X, or it is a transferFrom(X, _, amount) called by a
\* spender S whose allowance(X, S) just before the step was at least amount;
\* such an S has been approved by X before: a caller who does not hold X's
\* key and was never approved by X never reduces X's balance.
C27_Authorization ==
  \A X \in Addresses :
    Bal(Ledger, X) < Bal(pre, X) =>
      /\ secretKey \in Bytes32
      /\ Succeeded
      /\ \/ /\ lastOp.op = "transfer"
            /\ compute_address(secretKey) = X
         \/ /\ lastOp.op = "transferFrom"
            /\ lastOp.a = X
            /\ HasEntry(pre, X, compute_address(secretKey))
            /\ pre.allowances[X][compute_address(secretKey)] >= lastOp.amount
            /\ approved[<<X, compute_address(secretKey)>>].calls > 0

\* C27's case: a spender who does not hold X's key, approved by X, reduced
\* X's balance.
C27_Witness ==
  /\ Called("transferFrom") /\ Succeeded
  /\ compute_address(secretKey) # lastOp.a
  /\ Bal(Ledger, lastOp.a) < Bal(pre, lastOp.a)
  /\ approved[<<lastOp.a, compute_address(secretKey)>>].calls > 0

\* C28 (delegated-spend bound under the approve race): for every owner O and
\* spender S, after any interleaving of calls, the total amount moved out of
\* O by S's successful transferFrom calls plus the current allowance(O, S) is
\* at most the sum of the amounts of all approve(S, _) calls made by O.
C28_SpendBound ==
  \A O \in Addresses, S \in Addresses :
    spent[<<O, S>>] + Allw(Ledger, O, S) <= approved[<<O, S>>].total

\* C28's case, the race: approve(S, A), a transferFrom by S spending part of
\* A, then approve(S, B): what S has spent and may still spend adds up to the
\* whole of A + B.
C28_Witness ==
  \E O \in Addresses, S \in Addresses :
    /\ approved[<<O, S>>].calls = 2
    /\ spent[<<O, S>>] > 0
    /\ Allw(Ledger, O, S) > 0
    /\ spent[<<O, S>>] + Allw(Ledger, O, S) = approved[<<O, S>>].total

\* C29: ArithmeticOverflow is unreachable from a constructed ledger: in every
\* state reachable from construct (initialSupply <= 2^222 - 1), a transfer or
\* transferFrom that passes its balance and allowance checks has (recipient
\* balance after the debit) + amount <= totalSupply <= 2^222 - 1, and the
\* call succeeds; no call fails with ArithmeticOverflow.
C29_NoOverflow ==
  /\ lastOp.err # ArithmeticOverflow
  /\ pre.totalSupply <= MaxUint
  /\ (Called("transfer") /\ Bal(pre, lastOp.caller) >= lastOp.amount) =>
       /\ CreditBase(lastOp.caller, lastOp.a, lastOp.amount) + lastOp.amount
            <= pre.totalSupply
       /\ Succeeded
  /\ (Called("transferFrom")
        /\ HasEntry(pre, lastOp.a, lastOp.caller)
        /\ Allw(pre, lastOp.a, lastOp.caller) >= lastOp.amount
        /\ Bal(pre, lastOp.a) >= lastOp.amount) =>
       /\ CreditBase(lastOp.a, lastOp.b, lastOp.amount) + lastOp.amount
            <= pre.totalSupply
       /\ Succeeded

\* C29's case: a recipient who already held tokens was credited up to the
\* largest value, the whole supply, and the credit was accepted.
C29_Witness ==
  /\ Called("transfer") /\ Succeeded
  /\ lastOp.amount > 0
  /\ lastOp.a # lastOp.caller
  /\ Bal(pre, lastOp.a) > 0
  /\ Bal(Ledger, lastOp.a) = MaxUint
  /\ totalSupply = MaxUint

\* C30 (allowance entries persist): once owner O has called approve(S, _),
\* the (O, S) entry exists in every later state: no step removes an entry,
\* neither a transferFrom that spends it down to 0 nor approve(S, 0); so a
\* later transferFrom(O, _, amount) by S never fails with NoAllowanceSet, and
\* with amount above the remaining allowance it fails with
\* InsufficientAllowance.
C30_EntriesPersist ==
  /\ \A O \in Addresses, S \in Addresses :
       /\ approved[<<O, S>>].calls > 0 => HasEntry(Ledger, O, S)
       /\ HasEntry(pre, O, S) => HasEntry(Ledger, O, S)
  /\ (Called("transferFrom") /\ approved[<<lastOp.a, lastOp.caller>>].calls > 0) =>
       /\ lastOp.err # NoAllowanceSet
       /\ lastOp.amount > Allw(pre, lastOp.a, lastOp.caller) =>
            lastOp.err = InsufficientAllowance

\* C30's case: an allowance was spent down to 0 and the next transferFrom
\* of the same spender was refused for its amount, not for a missing entry.
C30_Witness ==
  /\ Called("transferFrom")
  /\ spent[<<lastOp.a, lastOp.caller>>] > 0
  /\ HasEntry(pre, lastOp.a, lastOp.caller)
  /\ pre.allowances[lastOp.a][lastOp.caller] = 0
  /\ lastOp.amount > 0
  /\ lastOp.err = InsufficientAllowance

\* C30's case for approve(S, 0): the entry is there with value 0.
C30_WitnessApproveZero ==
  /\ Called("approve")
  /\ lastOp.amount = 0
  /\ Allw(pre, lastOp.caller, lastOp.a) > 0
  /\ HasEntry(Ledger, lastOp.caller, lastOp.a)
  /\ allowances[lastOp.caller][lastOp.a] = 0

\* C31: transferFrom(from, to, 0) by a spender who has no (from, spender)
\* allowance entry fails with NoAllowanceSet although it would move nothing;
\* once the entry exists, even with value 0, the same call succeeds and
\* leaves every balance and the allowance value as they were. A zero-amount
\* transferFrom, unlike a zero-amount transfer, is not unconditionally
\* successful.
C31_ZeroTransferFrom ==
  (Called("transferFrom") /\ lastOp.amount = 0) =>
    IF ~HasEntry(pre, lastOp.a, lastOp.caller)
    THEN /\ lastOp.err = NoAllowanceSet
         /\ Ledger = pre
    ELSE /\ Succeeded
         /\ \A x \in Addresses : Bal(Ledger, x) = Bal(pre, x)
         /\ \A o \in Addresses, s \in Addresses : Allw(Ledger, o, s) = Allw(pre, o, s)
         /\ allowances = pre.allowances
         /\ totalSupply = pre.totalSupply

\* C31's case: a spender without an entry under a token holder asked for 0
\* and was refused.
C31_Witness ==
  /\ Called("transferFrom")
  /\ lastOp.amount = 0
  /\ ~HasEntry(pre, lastOp.a, lastOp.caller)
  /\ Bal(pre, lastOp.a) > 0
  /\ lastOp.err = NoAllowanceSet

\* C31's other case: the entry exists with value 0 and the call for 0
\* succeeded.
C31_WitnessZeroEntry ==
  /\ Called("transferFrom") /\ Succeeded
  /\ lastOp.amount = 0
  /\ HasEntry(pre, lastOp.a, lastOp.caller)
  /\ pre.allowances[lastOp.a][lastOp.caller] = 0
  /\ lastOp.caller # lastOp.a

\* The ledger L without its zero-valued balances entries.
WithoutZeroEntries(L) ==
  [L EXCEPT !.balances =
     [a \in {x \in DOMAIN L.balances : L.balances[x] # 0} |-> L.balances[a]]]

\* C32: for balances, an absent entry and an entry with value 0 are
\* indistinguishable: of two ledgers that differ only in that one holds a
\* zero-valued balances entry where the other holds none, every sequence of
\* operations gives the same success or failure at every call and the same
\* balanceOf, allowance and getTotalSupply results, and the two ledgers go on
\* differing in zero-valued balances entries only.
C32_ZeroEntryUnobservable ==
  twin.on =>
    /\ twin.err = lastOp.err
    /\ twin.ret = lastOp.ret
    /\ WithoutZeroEntries(twin.ledger) = WithoutZeroEntries(Ledger)
    /\ \A x \in Addresses : balanceOf(twin.ledger, x) = balanceOf(Ledger, x)
    /\ getTotalSupply(twin.ledger) = getTotalSupply(Ledger)

\* C32's case: a transfer of a positive amount by a caller who has a
\* zero-valued entry in one ledger and no entry in the other was refused in
\* both, and the two stored ledgers still differ.
C32_Witness ==
  /\ twin.on
  /\ Called("transfer")
  /\ lastOp.err = InsufficientBalance
  /\ twin.err = InsufficientBalance
  /\ lastOp.caller \in DOMAIN twin.ledger.balances
  /\ lastOp.caller \notin DOMAIN balances
  /\ twin.ledger # Ledger

\* C32's case for reads: balanceOf of an address other than the mint address
\* returned the same positive value in both, after the calls had written the
\* entry that only one ledger held at first.
C32_WitnessRead ==
  /\ twin.on
  /\ lastOp.op = "balanceOf"
  /\ lastOp.ret > 0
  /\ twin.ret = lastOp.ret
  /\ lastOp.a # ctorArgs.mintAddress
  /\ twin.ledger = Ledger

\* The circuits the simulator runs and assigns the context of.
CircuitCalls == {"transfer", "approve", "transferFrom"}

\* The outcome of the circuit call that the step being taken records in
\* lastOp', had it been run on ledger L with the key held before the step.
CallOn(L) ==
  CASE lastOp'.op = "transfer" -> transfer(L, secretKey, lastOp'.a, lastOp'.amount)
    [] lastOp'.op = "approve" -> approve(L, secretKey, lastOp'.a, lastOp'.amount)
    [] lastOp'.op = "transferFrom" ->
         transferFrom(L, secretKey, lastOp'.a, lastOp'.b, lastOp'.amount)

\* C33: in the simulator a failing transfer, approve or transferFrom throws
\* before circuitContext is reassigned: the ledger and the private state
\* after the call are those before it, whatever the circuit had written when
\* it threw, and the call that follows a failed one is applied to the ledger
\* the last successful call left; setSk changes only the secret key of the
\* private state, and leaves the ledger as it was.
C33_FailedCallKeepsContext ==
  [][ /\ (lastOp'.op \in CircuitCalls /\ lastOp'.err # NoError) =>
           /\ Ledger' = Ledger
           /\ secretKey' = secretKey
      /\ (lastOp'.op \in CircuitCalls /\ lastOp.op \in CircuitCalls /\ lastOp.err # NoError) =>
           /\ lastOp'.err = CallOn(pre).err
           /\ Ledger' = (IF lastOp'.err = NoError THEN CallOn(pre).ledger ELSE pre)
      /\ lastOp'.op = "setSk" =>
           /\ secretKey' = lastOp'.a
           /\ Ledger' = Ledger
           /\ ctorArgs' = ctorArgs
    ]_vars

\* C33's case: a transfer threw at its credit, after the circuit had written
\* the debit into its own context, and the simulator's ledger is the one
\* before the call.
C33_Witness ==
  /\ Called("transfer")
  /\ lastOp.err = ArithmeticOverflow
  /\ transfer(pre, secretKey, lastOp.a, lastOp.amount).ledger # pre
  /\ Ledger = pre

\* C33's case for setSk: the key was set after tokens had moved, and the
\* ledger is as it was.
C33_WitnessSetSk ==
  /\ lastOp.op = "setSk"
  /\ secretKey = lastOp.a
  /\ DOMAIN balances # {}
  /\ \E x \in DOMAIN balances : balances[x] < MaxUint
  /\ Ledger = pre

\* C34: in the Board UI, each of onTransfer, onApprove, onTransferFrom,
\* onCheckBalance and onCheckAllowance that has set isWorking to true ends
\* with isWorking false, whether its API call resolved or rejected; when the
\* call rejected, errorMessage is the error's message (the error as a string
\* when it is no Error) and the handler's input fields hold what they held;
\* when a mutating call resolved, the handler's input fields are empty; and a
\* handler called with a required input empty makes no API call and changes
\* no state.
C34_HandlerOutcome ==
  board.mounted =>
    LET last == board.last
        state == board.state
    IN
    /\ last.did \in {"resolved", "rejected", "threw"} => state.isWorking = FALSE
    /\ last.did = "rejected" =>
         /\ state.errorMessage
              = (IF last.error.isError THEN last.error.message ELSE last.error.value)
         /\ \A f \in InputsOf(last.handler) : state[f] = last.before[f]
         /\ last.handler \notin board.pending
    /\ (last.did = "resolved" /\ last.handler \in Mutating) =>
         /\ \A f \in InputsOf(last.handler) : state[f] = ""
         /\ state.errorMessage = last.before.errorMessage
    /\ last.did = "returned" =>
         /\ state = last.before
         /\ board.pending = last.pendingBefore
    /\ last.did = "called" =>
         /\ \A f \in InputsOf(last.handler) : last.before[f] # ""
         /\ state.isWorking

\* C34's case: the transferFrom call of onTransferFrom rejected while the
\* working indicator was shown; the three fields are still filled in.
C34_Witness ==
  /\ board.mounted
  /\ board.last.did = "rejected"
  /\ board.last.handler = "onTransferFrom"
  /\ board.last.before.isWorking
  /\ board.last.error.isError
  /\ board.state.errorMessage = InsufficientBalance
  /\ board.state.transferFromAmount = "1"
  /\ ~board.state.isWorking

\* C34's case for a mutating call that resolved: the fields were filled in
\* and are empty.
C34_WitnessResolved ==
  /\ board.mounted
  /\ board.last.did = "resolved"
  /\ board.last.handler = "onApprove"
  /\ board.last.before.isWorking
  /\ board.last.before.approveSpender # ""
  /\ board.state.approveSpender = ""
  /\ board.state.approveAmount = ""
  /\ ~board.state.isWorking

\* C34's case for an empty input: onTransfer was called on a deployed
\* contract with the recipient filled in and the amount empty.
C34_WitnessEmpty ==
  /\ board.mounted
  /\ board.last.did = "returned"
  /\ board.last.handler = "onTransfer"
  /\ board.state.deployedBoardAPI
  /\ board.state.transferTo # ""
  /\ board.state.transferAmount = ""
  /\ board.pending = {}

====
